---- MODULE Spec2Model ----
(***************************************************************************)
(* A model of backup.py: a configuration-driven rsync orchestrator.        *)
(*                                                                         *)
(* Strings are sequences of fragments (a path is a sequence of one-        *)
(* character fragments, so that slash trimming, basename, strip and join   *)
(* are computed character by character as the code does).  The process     *)
(* is a sequential program; pc is the position of main().                  *)
(***************************************************************************)
EXTENDS Integers, Sequences, FiniteSets, TLC

VARIABLES
    autoconfirm,     \* args.autoconfirm, as parsed by getargs()
    config,          \* the document returned by json.load
    readable,        \* file system: the source paths os.access(.., R_OK) accepts
    targetExists,    \* file system: os.path.exists(target.path)
    targetWritable,  \* file system: os.access(target.path, W_OK)
    identifiers,     \* Source.identifiers, a set of <<idn, first-seen path>>
    cur,             \* the Source under construction in readconfig's loop (0 or 1)
    sources,         \* readconfig's list of Sources
    target,          \* the Target (0 or 1 element: its path)
    pc,              \* position in the program
    i,               \* index of the running for-loop
    shown,           \* status lines printed by Source.show
    duCalls,         \* invocations of the sizing tool
    sizeLog,         \* values returned by Source.size, per call
    prompts,         \* input() reads made by confirm, with the answer read
    mkdirs,          \* number of os.makedirs calls
    rsyncCalls,      \* invocations of the mirroring tool
    exitcode,        \* the process' exit status: <<>> while it runs, then <<code>>
    cause,           \* why the process ended
    loads            \* calls of readconfig made in this process

vars == <<autoconfirm, config, readable, targetExists, targetWritable,
          identifiers, cur, sources, target, pc, i, shown, duCalls, sizeLog,
          prompts, mkdirs, rsyncCalls, exitcode, cause, loads>>

\* ------------------------------------------------------------------ bounds

\* Longest "sources" list of a configuration document.
MaxSources == 2

\* Most direct calls of Source.size made by a client of the class.
MaxSizeCalls == 2

\* Most calls of readconfig made in one process.
MaxLoads == 2

\* ----------------------------------------------------------------- strings

EmptyStr == <<>>

EndsWith(s, c) == Len(s) > 0 /\ s[Len(s)] = c

StartsWith(s, c) == Len(s) > 0 /\ s[1] = c

\* trim_trailing_slash: drops one trailing "/" (s[:-1]), no more.
trim_trailing_slash(s) ==
    IF EndsWith(s, "/") THEN SubSeq(s, 1, Len(s) - 1) ELSE s

\* Index of the last "/" of p, 0 when there is none (str.rfind + 1).
LastSlash(p) ==
    LET S == {k \in 1..Len(p) : p[k] = "/"}
    IN  IF S = {} THEN 0 ELSE CHOOSE k \in S : \A m \in S : m <= k

\* os.path.basename: what follows the last "/".
basename(p) == SubSeq(p, LastSlash(p) + 1, Len(p))

\* str.strip: leading and trailing whitespace removed.
strip(s) ==
    LET S == {k \in 1..Len(s) : s[k] # " "}
    IN  IF S = {} THEN EmptyStr
        ELSE SubSeq(s, CHOOSE k \in S : \A m \in S : k <= m,
                       CHOOSE k \in S : \A m \in S : m <= k)

\* os.path.join(a, b) on POSIX.
pathjoin(a, b) ==
    IF StartsWith(b, "/") THEN b
    ELSE IF a = EmptyStr \/ EndsWith(a, "/") THEN a \o b
    ELSE a \o <<"/">> \o b

\* ",".join(errs)
RECURSIVE JoinComma(_)
JoinComma(errs) ==
    IF errs = <<>> THEN EmptyStr
    ELSE IF Len(errs) = 1 THEN errs[1]
    ELSE errs[1] \o <<",">> \o JoinComma(Tail(errs))

\* ------------------------------------------------------- JSON documents

\* A JSON value of the shapes the loader tells apart: a string, a list of
\* strings, or something else ("num").
JStr(s) == [t |-> "str", s |-> s, l |-> <<>>]
JList(l) == [t |-> "list", s |-> EmptyStr, l |-> l]
JNum == [t |-> "num", s |-> EmptyStr, l |-> <<>>]
JNone == [t |-> "none", s |-> EmptyStr, l |-> <<>>]

\* A source entry: a bare string, or an object whose present keys are `keys`.
BareEntry(p) == [t |-> "str", s |-> p, keys |-> {}, path |-> JNone, exclude |-> JNone]
DictEntry(p) ==
    [t |-> "dict", s |-> EmptyStr, keys |-> {"path"}, path |-> JStr(p), exclude |-> JNone]
DictEntryExcl(p, x) ==
    [t |-> "dict", s |-> EmptyStr, keys |-> {"path", "exclude"}, path |-> JStr(p), exclude |-> x]

\* The top-level document: the keys present, and the values of the two
\* keys the loader reads.
Document(keys, srcs, tgt) == [keys |-> keys, sources |-> srcs, target |-> tgt]
JItems(items) == [t |-> "list", items |-> items]
JNotList == [t |-> "num", items |-> <<>>]

SeqsUpTo(S, n) == UNION {[1..k -> S] : k \in 0..n}

\* ------------------------------------------------------------ input sets

P1 == <<"a", "/", "x">>
P2 == <<"b", "/", "x", "/">>
P3 == <<"y">>
SourcePaths == {P1, P2, P3}

PatP == <<"*", ".", "o">>
PatQ == <<"t", "m", "p">>

TargetStrings == {<<" ", "/", "t">>, <<"/", "t", "/">>}

\* Entries of the configurations the whole program is run on.
RunEntries ==
    {BareEntry(p) : p \in SourcePaths}
    \cup {DictEntry(p) : p \in {P1}}
    \cup {DictEntryExcl(p, JList(<<PatP, PatQ>>)) : p \in SourcePaths}

\* Entries of the configurations the loader alone is run on.
LoadEntries ==
    {BareEntry(p) : p \in SourcePaths}
    \cup {DictEntry(p) : p \in SourcePaths}
    \cup {DictEntryExcl(p, x) : p \in SourcePaths,
            x \in {JStr(PatP), JList(<<>>), JList(<<PatP, PatQ>>), JList(<<PatQ, PatP>>)}}

ValidDocuments(entries, targets) ==
    {Document({"sources", "target"}, JItems(items), JStr(t)) :
        items \in SeqsUpTo(entries, MaxSources), t \in targets}

\* Documents that break the two-key schema, each in one way.
BrokenDocuments(entries, targets) ==
    LET one == {JItems(<<e>>) : e \in entries}
    IN  {Document({"sources"}, s, JNone) : s \in one}
        \cup {Document({"sources", "extra"}, s, JNone) : s \in one}
        \cup {Document({"target"}, JNotList, JStr(t)) : t \in targets}
        \cup {Document({"target", "extra"}, JNotList, JStr(t)) : t \in targets}
        \cup {Document({"sources", "target", "extra"}, s, JStr(t)) : s \in one, t \in targets}
        \cup {Document({"sources", "target"}, JNotList, JStr(t)) : t \in targets}
        \cup {Document({"sources", "target"}, s, JNum) : s \in one}

Answers == {"y", "", "n", "Y"}

SizeStrings == {"4.0K", "1.1G"}

\* ------------------------------------------------------------------- Init

InitWith(docs, readables, targetStates, flags) ==
    /\ autoconfirm \in flags
    /\ config \in docs
    /\ readable \in readables
    /\ \E ts \in targetStates : targetExists = ts[1] /\ targetWritable = ts[2]
    /\ identifiers = {}
    /\ cur = <<>>
    /\ sources = <<>>
    /\ target = <<>>
    /\ pc = "readconfig"
    /\ i = 1
    /\ shown = <<>>
    /\ duCalls = <<>>
    /\ sizeLog = <<>>
    /\ prompts = <<>>
    /\ mkdirs = 0
    /\ rsyncCalls = <<>>
    /\ exitcode = <<>>
    /\ cause = "running"
    /\ loads = 1

TrimmedPaths == {trim_trailing_slash(p) : p \in SourcePaths}

\* A missing path is not writable: os.access answers False for it.
TargetStates == {<<FALSE, FALSE>>, <<TRUE, FALSE>>, <<TRUE, TRUE>>}

Init ==
    InitWith(ValidDocuments(RunEntries, TargetStrings)
                \cup BrokenDocuments({BareEntry(P1)}, {<<" ", "/", "t">>}),
             SUBSET TrimmedPaths, TargetStates, BOOLEAN)

\* The loader run alone, on documents with every shape of entry.
InitLoad ==
    InitWith(ValidDocuments(LoadEntries, TargetStrings)
                \cup BrokenDocuments({BareEntry(P1)}, {<<" ", "/", "t">>}),
             {TrimmedPaths}, {<<TRUE, TRUE>>}, {FALSE})

\* A client of class Source that loads a document and queries sizes.
InitSize ==
    InitWith(ValidDocuments({BareEntry(P1), BareEntry(P3),
                             DictEntryExcl(P3, JList(<<PatP, PatQ>>))},
                            {<<"/", "t", "/">>}),
             {TrimmedPaths}, {<<TRUE, TRUE>>}, {FALSE})

\* --------------------------------------------------------- process exit

\* sys.exit(code).
Exit(code, why) ==
    /\ pc' = "exited"
    /\ exitcode' = <<code>>
    /\ cause' = why

\* An exception nothing catches: the interpreter prints the traceback and
\* exits with status 1.
Crash(exc) == Exit(1, exc)

\* err(s): prints the message and exits with status 1.
err(s) == Exit(1, s)

NoExit == UNCHANGED <<exitcode, cause>>

\* ------------------------------------------------------------- Source

Registered(idn) == \E e \in identifiers : e[1] = idn

\* Source.identifiers[idn]
FirstSeen(idn) == (CHOOSE e \in identifiers : e[1] = idn)[2]

\* Source.__init__, the object built (the registry as it is before the call).
NewSource(s) ==
    LET p == trim_trailing_slash(s)
        idn == basename(p)
    IN  [path |-> p, idn |-> idn, excludes |-> <<>>,
         unique |-> ~Registered(idn), attrs |-> {}]

\* Source.__init__ with the registration outside the `if`: the entry of a
\* known identifier is overwritten.
MutRegistryAfter(s) ==
    LET idn == basename(trim_trailing_slash(s))
    IN  {e \in identifiers : e[1] # idn} \cup {<<idn, s>>}

\* Source.__init__, the registry after the call: a new identifier maps to
\* the string given, a known one keeps what it maps to.
RegistryAfter(s) ==
    LET idn == basename(trim_trailing_slash(s))
    IN  IF Registered(idn) THEN identifiers ELSE identifiers \cup {<<idn, s>>}

\* Source.exclude inserting at the front of the list.
MutSourceExclude(src, s) == [src EXCEPT !.excludes = <<s>> \o @]

\* Source.exclude
SourceExclude(src, s) == [src EXCEPT !.excludes = Append(@, s)]

\* Source.readable
SourceReadable(src) == src.path \in readable

\* Source.unique_idn
SourceUniqueIdn(src) == src.unique

\* Source.err with `elif` for the second test: uniqueness is looked at only
\* when the path is readable.
MutSourceErrs(src) ==
    IF ~SourceReadable(src) THEN << <<"not readable">> >>
    ELSE IF ~SourceUniqueIdn(src)
    THEN << src.idn \o <<" conflicts with ">> \o FirstSeen(src.idn) >>
    ELSE <<>>

\* Source.err, the list of reasons before the join.
SourceErrs(src) ==
    (IF ~SourceReadable(src) THEN << <<"not readable">> >> ELSE <<>>)
    \o (IF ~SourceUniqueIdn(src)
        THEN << src.idn \o <<" conflicts with ">> \o FirstSeen(src.idn) >>
        ELSE <<>>)

\* Source.err
SourceErr(src) == JoinComma(SourceErrs(src))

\* hasattr(obj, name): an attribute of exactly that name is set.
hasattr(obj, name) == \E a \in obj.attrs : a[1] = name

getattr(obj, name) == (CHOOSE a \in obj.attrs : a[1] = name)[2]

setattr(obj, name, v) ==
    [obj EXCEPT !.attrs = {a \in @ : a[1] # name} \cup {<<name, v>>}]

\* The name hasattr is given in Source.size: a string literal, taken as is.
SizeProbedName == "__size"

\* The name self.__size stands for inside class Source: an identifier with
\* two leading underscores is mangled with the class name.
SizeStoredName == "_Source__size"

\* The sizing tool's command line for a source.
DuArgs(k) ==
    LET s == sources[k]
    IN  [src |-> k, path |-> s.path,
         excl |-> [n \in 1..Len(s.excludes) |-> s.path \o <<"/">> \o s.excludes[n]]]

\* Source.size on sources[k], when it returns: the sizing tool runs unless
\* the probe finds the attribute; the value returned is logged in sizeLog.
SizeReturns(k) ==
    IF ~hasattr(sources[k], SizeProbedName)
    THEN \E out \in SizeStrings :
            /\ duCalls' = Append(duCalls, DuArgs(k))
            /\ sources' = [sources EXCEPT ![k] = setattr(@, SizeStoredName, out)]
            /\ sizeLog' = Append(sizeLog, [src |-> k, value |-> out])
    ELSE /\ UNCHANGED <<duCalls, sources>>
         /\ sizeLog' = Append(sizeLog,
                [src |-> k, value |-> getattr(sources[k], SizeStoredName)])

\* Source.size on sources[k], when check_output raises (the tool exits
\* non-zero): nothing catches it.
SizeRaises(k) ==
    /\ ~hasattr(sources[k], SizeProbedName)
    /\ duCalls' = Append(duCalls, DuArgs(k))
    /\ UNCHANGED <<sources, sizeLog>>
    /\ Crash("CalledProcessError")

\* ------------------------------------------------------------- loader

makelist(v) == IF v.t = "str" THEN <<v.s>> ELSE v.l

getpath(item) == IF item.t = "dict" THEN item.path.s ELSE item.s

getexclude(item) == IF item.t # "dict" THEN <<>> ELSE makelist(item.exclude)

\* item["exclude"] of an object without that key raises KeyError.
GetexcludeRaises(item) == item.t = "dict" /\ "exclude" \notin item.keys

\* The assertion without its count of the top-level keys.
MutConfigAssert(c) ==
    IF "sources" \notin c.keys THEN "KeyError"
    ELSE IF c.sources.t # "list" THEN "AssertionError"
    ELSE IF "target" \notin c.keys THEN "KeyError"
    ELSE IF c.target.t # "str" THEN "AssertionError"
    ELSE "ok"

\* The "basic sanity" assertion of readconfig, evaluated left to right.
ConfigAssert(c) ==
    IF Cardinality(c.keys) # 2 THEN "AssertionError"
    ELSE IF "sources" \notin c.keys THEN "KeyError"
    ELSE IF c.sources.t # "list" THEN "AssertionError"
    ELSE IF "target" \notin c.keys THEN "KeyError"
    ELSE IF c.target.t # "str" THEN "AssertionError"
    ELSE "ok"

\* for excl in getexclude(item): source.exclude(excl)
RECURSIVE ExcludeAll(_, _)
ExcludeAll(src, l) ==
    IF l = <<>> THEN src ELSE ExcludeAll(SourceExclude(src, Head(l)), Tail(l))

Items == config.sources.items

\* readconfig up to its loop: the document is loaded and asserted.
ReadConfig ==
    /\ pc = "readconfig"
    /\ IF ConfigAssert(config) = "ok"
       THEN pc' = "load" /\ i' = 1 /\ NoExit
       ELSE Crash(ConfigAssert(config)) /\ UNCHANGED i
    /\ UNCHANGED <<loads, autoconfirm, config, readable, targetExists, targetWritable,
                   identifiers, cur, sources, target, shown, duCalls, sizeLog,
                   prompts, mkdirs, rsyncCalls>>

\* source = Source(getpath(item))
ConstructSource ==
    /\ pc = "load"
    /\ i <= Len(Items)
    /\ cur' = <<NewSource(getpath(Items[i]))>>
    /\ identifiers' = RegistryAfter(getpath(Items[i]))
    /\ pc' = "load_excl"
    /\ NoExit
    /\ UNCHANGED <<loads, autoconfirm, config, readable, targetExists, targetWritable,
                   sources, target, i, shown, duCalls, sizeLog, prompts, mkdirs,
                   rsyncCalls>>

\* The rest of the loop body: the exclusions and sources.append(source).
LoadExcludes ==
    /\ pc = "load_excl"
    /\ IF GetexcludeRaises(Items[i])
       THEN Crash("KeyError") /\ UNCHANGED <<cur, sources, i>>
       ELSE /\ sources' = Append(sources, ExcludeAll(cur[1], getexclude(Items[i])))
            /\ cur' = <<>>
            /\ i' = i + 1
            /\ pc' = "load"
            /\ NoExit
    /\ UNCHANGED <<loads, autoconfirm, config, readable, targetExists, targetWritable,
                   identifiers, target, shown, duCalls, sizeLog, prompts, mkdirs,
                   rsyncCalls>>

\* Target.__init__
NewTarget(s) == strip(s)

\* After the loop: target = Target(config["target"]); return.
ReturnConfig ==
    /\ pc = "load"
    /\ i > Len(Items)
    /\ target' = <<NewTarget(config.target.s)>>
    /\ pc' = "show"
    /\ i' = 1
    /\ NoExit
    /\ UNCHANGED <<loads, autoconfirm, config, readable, targetExists, targetWritable,
                   identifiers, cur, sources, shown, duCalls, sizeLog, prompts,
                   mkdirs, rsyncCalls>>

\* ---------------------------------------------------------------- main

\* confirm with yes as the default answer: the empty line proceeds too.
MutAffirmative(ans) == ans \in {"y", ""}

\* confirm's test of the line read.
Affirmative(ans) == ans = "y"

\* confirm ending a declined run through err(): exit status 1.
MutConfirm(s, skipped, next) ==
    IF skipped
    THEN pc' = next /\ NoExit /\ UNCHANGED prompts
    ELSE \E ans \in Answers :
            /\ prompts' = Append(prompts, [prompt |-> s, answer |-> ans])
            /\ IF ans # "y"
               THEN err("Operation aborted.")
               ELSE pc' = next /\ NoExit

\* confirm(s, skipped), leading to position `next` when it returns.
confirm(s, skipped, next) ==
    IF skipped
    THEN pc' = next /\ NoExit /\ UNCHANGED prompts
    ELSE \E ans \in Answers :
            /\ prompts' = Append(prompts, [prompt |-> s, answer |-> ans])
            /\ IF ~Affirmative(ans)
               THEN Exit(3, "Operation aborted.")
               ELSE pc' = next /\ NoExit

\* The final gate skipped unconditionally.
MutProceedSkipped == TRUE

\* The `skipped` argument at confirm's two call sites: neither passes one,
\* so the default (False) applies.
CreateSkipped == FALSE

ProceedSkipped == FALSE

\* Source.show asking for the size before looking at the readiness: the
\* sizing tool runs for failing sources too.
MutShowSource ==
    /\ pc = "show"
    /\ i <= Len(sources)
    /\ \/ /\ SizeReturns(i)
          /\ shown' = Append(shown, [src |-> i, err |-> SourceErr(sources[i]),
                                     size |-> sizeLog'[Len(sizeLog')].value])
          /\ i' = i + 1
          /\ UNCHANGED pc
          /\ NoExit
       \/ /\ SizeRaises(i)
          /\ UNCHANGED <<shown, i>>
    /\ UNCHANGED <<loads, autoconfirm, config, readable, targetExists, targetWritable,
                   identifiers, cur, target, prompts, mkdirs, rsyncCalls>>

\* for source in sources: source.show()
ShowSource ==
    /\ pc = "show"
    /\ i <= Len(sources)
    /\ IF SourceErr(sources[i]) # EmptyStr
       THEN /\ shown' = Append(shown, [src |-> i, err |-> SourceErr(sources[i]),
                                       size |-> ""])
            /\ i' = i + 1
            /\ UNCHANGED <<sources, duCalls, sizeLog, pc>>
            /\ NoExit
       ELSE \/ /\ SizeReturns(i)
               /\ shown' = Append(shown, [src |-> i, err |-> EmptyStr,
                                          size |-> sizeLog'[Len(sizeLog')].value])
               /\ i' = i + 1
               /\ UNCHANGED pc
               /\ NoExit
            \/ /\ SizeRaises(i)
               /\ UNCHANGED <<shown, i>>
    /\ UNCHANGED <<loads, autoconfirm, config, readable, targetExists, targetWritable,
                   identifiers, cur, target, prompts, mkdirs, rsyncCalls>>

\* The validation loop looking at the first source only.
MutSourcesFailed == sources # <<>> /\ SourceErr(sources[1]) # EmptyStr

\* for source in sources: if source.err(): err(..)
SourcesFailed == \E k \in 1..Len(sources) : SourceErr(sources[k]) # EmptyStr

\* The validation merged into the reporting loop: the process ends at the
\* first failing source it meets.
MutCheckSources ==
    /\ pc = "show"
    /\ IF i <= Len(sources)
       THEN SourceErr(sources[i]) # EmptyStr
            /\ err("one or more sources failed sanity check")
       ELSE pc' = "target" /\ NoExit
    /\ UNCHANGED <<loads, autoconfirm, config, readable, targetExists,
                   targetWritable, identifiers, cur, sources, target, i, shown,
                   duCalls, sizeLog, prompts, mkdirs, rsyncCalls>>

CheckSources ==
    /\ pc = "show"
    /\ i > Len(sources)
    /\ IF SourcesFailed
       THEN err("one or more sources failed sanity check")
       ELSE pc' = "target" /\ NoExit
    /\ UNCHANGED <<loads, autoconfirm, config, readable, targetExists, targetWritable,
                   identifiers, cur, sources, target, i, shown, duCalls, sizeLog,
                   prompts, mkdirs, rsyncCalls>>

\* Target.exists answering as Target.writable does (W_OK for F_OK).
MutTargetExistsNow == targetWritable

\* Target.exists
TargetExistsNow == targetExists

\* Target.writable testing existence (F_OK) instead of W_OK.
MutTargetWritableNow == targetExists

\* Target.writable
TargetWritableNow == targetWritable

\* Target.sanity
TargetSanity == TargetExistsNow /\ TargetWritableNow

\* if not target.exists(): target.create()
CheckTarget ==
    /\ pc = "target"
    /\ pc' = IF ~TargetExistsNow THEN "create" ELSE "writable"
    /\ NoExit
    /\ UNCHANGED <<loads, autoconfirm, config, readable, targetExists, targetWritable,
                   identifiers, cur, sources, target, i, shown, duCalls, sizeLog,
                   prompts, mkdirs, rsyncCalls>>

\* Target.create, its confirmation.
CreateConfirm ==
    /\ pc = "create"
    /\ confirm("create?", CreateSkipped, "makedirs")
    /\ UNCHANGED <<loads, autoconfirm, config, readable, targetExists, targetWritable,
                   identifiers, cur, sources, target, i, shown, duCalls, sizeLog,
                   mkdirs, rsyncCalls>>

\* Target.create, os.makedirs: it makes the directory (whose permissions
\* the environment decides) or raises, and then err() ends the process.
Makedirs ==
    /\ pc = "makedirs"
    /\ mkdirs' = mkdirs + 1
    /\ \/ /\ targetExists' = TRUE
          /\ targetWritable' \in BOOLEAN
          /\ pc' = "writable"
          /\ NoExit
       \/ /\ err("could not create")
          /\ UNCHANGED <<targetExists, targetWritable>>
    /\ UNCHANGED <<loads, autoconfirm, config, readable, identifiers, cur, sources,
                   target, i, shown, duCalls, sizeLog, prompts, rsyncCalls>>

\* if not target.writable(): err(..); assert target.sanity()
CheckWritable ==
    /\ pc = "writable"
    /\ IF ~TargetWritableNow THEN err("target not writable") /\ UNCHANGED i
       ELSE IF ~TargetSanity THEN Crash("AssertionError") /\ UNCHANGED i
       ELSE pc' = "show_dest" /\ i' = 1 /\ NoExit
    /\ UNCHANGED <<loads, autoconfirm, config, readable, targetExists, targetWritable,
                   identifiers, cur, sources, target, shown, duCalls, sizeLog,
                   prompts, mkdirs, rsyncCalls>>

\* The destination of a source under the target.
Location(src) == pathjoin(target[1], src.idn)

\* Target.showSource: the destination is reported "to be created", or it
\* exists and the sizing tool is run on it (which may raise).  A target made
\* by this run is empty.
ShowDest ==
    /\ pc = "show_dest"
    /\ i <= Len(sources)
    /\ \/ /\ i' = i + 1
          /\ UNCHANGED <<pc, duCalls>>
          /\ NoExit
       \/ /\ mkdirs = 0
          /\ duCalls' = Append(duCalls, [src |-> 0, path |-> Location(sources[i]),
                                         excl |-> <<>>])
          /\ \/ i' = i + 1 /\ UNCHANGED pc /\ NoExit
             \/ Crash("CalledProcessError") /\ UNCHANGED i
    /\ UNCHANGED <<loads, autoconfirm, config, readable, targetExists, targetWritable,
                   identifiers, cur, sources, target, shown, sizeLog, prompts,
                   mkdirs, rsyncCalls>>

\* confirm("Proceed?")
FinalConfirm ==
    /\ pc = "show_dest"
    /\ i > Len(sources)
    /\ confirm("Proceed?", ProceedSkipped, "rsync")
    /\ i' = 1
    /\ UNCHANGED <<loads, autoconfirm, config, readable, targetExists, targetWritable,
                   identifiers, cur, sources, target, shown, duCalls, sizeLog,
                   mkdirs, rsyncCalls>>

\* The mirroring tool given the source's own destination directory instead
\* of the target root.
MutRsyncArgs(src) ==
    [excl |-> [n \in 1..Len(src.excludes) |-> src.idn \o <<"/">> \o src.excludes[n]],
     src |-> src.path,
     dst |-> Location(src)]

\* The mirroring tool's command line: the exclusions relative to the
\* identifier, then the source path and the target path.
RsyncArgs(src) ==
    [excl |-> [n \in 1..Len(src.excludes) |-> src.idn \o <<"/">> \o src.excludes[n]],
     src |-> src.path,
     dst |-> target[1]]

\* Target.rsync, up to subprocess.call: the tool is started.
RsyncStart ==
    /\ pc = "rsync"
    /\ i <= Len(sources)
    /\ rsyncCalls' = Append(rsyncCalls,
            [args |-> RsyncArgs(sources[i]), running |-> TRUE, rc |-> 0])
    /\ pc' = "rsync_wait"
    /\ NoExit
    /\ UNCHANGED <<loads, autoconfirm, config, readable, targetExists, targetWritable,
                   identifiers, cur, sources, target, i, shown, duCalls, sizeLog,
                   prompts, mkdirs>>

RsyncExitCodes == {0, 23}

\* subprocess.check_call in place of subprocess.call: a non-zero status
\* raises, and nothing catches it.
MutRsyncReturn ==
    /\ pc = "rsync_wait"
    /\ \E rc \in {0, 23} :
          /\ rsyncCalls' = [rsyncCalls EXCEPT ![Len(rsyncCalls)] =
                              [@ EXCEPT !.running = FALSE, !.rc = rc]]
          /\ IF rc # 0
             THEN Crash("CalledProcessError") /\ UNCHANGED i
             ELSE i' = i + 1 /\ pc' = "rsync" /\ NoExit
    /\ UNCHANGED <<loads, autoconfirm, config, readable, targetExists,
                   targetWritable, identifiers, cur, sources, target, shown,
                   duCalls, sizeLog, prompts, mkdirs>>

\* subprocess.call returns the tool's exit status, which is dropped.
RsyncReturn ==
    /\ pc = "rsync_wait"
    /\ \E rc \in RsyncExitCodes :
          rsyncCalls' = [rsyncCalls EXCEPT ![Len(rsyncCalls)] =
                            [@ EXCEPT !.running = FALSE, !.rc = rc]]
    /\ i' = i + 1
    /\ pc' = "rsync"
    /\ NoExit
    /\ UNCHANGED <<loads, autoconfirm, config, readable, targetExists, targetWritable,
                   identifiers, cur, sources, target, shown, duCalls, sizeLog,
                   prompts, mkdirs>>

\* print("All done!") and the interpreter's normal exit.
AllDone ==
    /\ pc = "rsync"
    /\ i > Len(sources)
    /\ Exit(0, "All done!")
    /\ UNCHANGED <<loads, autoconfirm, config, readable, targetExists, targetWritable,
                   identifiers, cur, sources, target, i, shown, duCalls, sizeLog,
                   prompts, mkdirs, rsyncCalls>>

Next ==
    \/ ReadConfig
    \/ ConstructSource
    \/ LoadExcludes
    \/ ReturnConfig
    \/ ShowSource
    \/ CheckSources
    \/ CheckTarget
    \/ CreateConfirm
    \/ Makedirs
    \/ CheckWritable
    \/ ShowDest
    \/ FinalConfirm
    \/ RsyncStart
    \/ RsyncReturn
    \/ AllDone

Spec == Init /\ [][Next]_vars

\* readconfig called on its own.
NextLoad ==
    \/ ReadConfig
    \/ ConstructSource
    \/ LoadExcludes
    \/ ReturnConfig

SpecLoad == InitLoad /\ [][NextLoad]_vars

\* source.size() called by a client on a loaded Source, any number of
\* times (at most MaxSizeCalls returns are followed).
CallSize ==
    /\ pc = "show"
    /\ Len(sizeLog) < MaxSizeCalls
    /\ \E k \in 1..Len(sources) :
          \/ SizeReturns(k) /\ UNCHANGED pc /\ NoExit
          \/ SizeRaises(k)
    /\ UNCHANGED <<loads, autoconfirm, config, readable, targetExists, targetWritable,
                   identifiers, cur, target, i, shown, prompts, mkdirs,
                   rsyncCalls>>

NextSize ==
    \/ ReadConfig
    \/ ConstructSource
    \/ LoadExcludes
    \/ ReturnConfig
    \/ CallSize

SpecSize == InitSize /\ [][NextSize]_vars

\* A registry held per load instead of per process: empty when a load
\* begins.
MutRegistryAtLoad == {}

\* Source.identifiers is a class attribute made once, when the class body
\* runs: a load begins with the dictionary the process already has.
RegistryAtLoad == identifiers

\* readconfig called once more by the same process: a new list and a new
\* Target are built, the class attribute Source.identifiers is the same
\* dictionary as before.
Reload ==
    /\ pc = "show"
    /\ i = 1
    /\ shown = <<>>
    /\ loads < MaxLoads
    /\ loads' = loads + 1
    /\ pc' = "readconfig"
    /\ sources' = <<>>
    /\ target' = <<>>
    /\ identifiers' = RegistryAtLoad
    /\ NoExit
    /\ UNCHANGED <<autoconfirm, config, readable, targetExists, targetWritable,
                   cur, i, shown, duCalls, sizeLog, prompts, mkdirs, rsyncCalls>>

\* A process that may load its document again before it goes on.
InitReload ==
    InitWith(ValidDocuments(RunEntries, {<<"/", "t", "/">>}),
             {TrimmedPaths}, {<<FALSE, FALSE>>, <<TRUE, TRUE>>}, {FALSE})

NextReload == Next \/ Reload

SpecReload == InitReload /\ [][NextReload]_vars

\* Source paths written with more than one trailing slash.
PS == <<"x", "/", "/">>
PR == <<"/">>
SlashPaths == {P2, P3, PS, PR}

\* The whole program run on such paths, all of them readable or none; the
\* empty path names nothing, so os.access never finds it readable.
InitSlash ==
    InitWith(ValidDocuments({BareEntry(p) : p \in SlashPaths}, TargetStrings),
             {{trim_trailing_slash(p) : p \in SlashPaths} \ {EmptyStr}, {}},
             TargetStates, {FALSE})

SpecSlash == InitSlash /\ [][Next]_vars

\* ---------------------------------------------------------------- claims

Declined(n) == prompts[n].answer # "y"

Asked(p) == \E n \in DOMAIN prompts : prompts[n].prompt = p

\* C1: with --autoconfirm no gate reads input and no run ends with the
\* user-abort exit status 3.
C1_AutoconfirmNeverPrompts ==
    autoconfirm => (prompts = <<>> /\ exitcode # <<3>>)

\* C2: without --autoconfirm, a gate lets the run go on only when the line
\* read is exactly "y"; any other line is the last thing read, ends the
\* process with status 3, and no mirror invocation is ever made; after a
\* declined creation gate no directory is made either.
C2_OnlyYesProceeds ==
    ~autoconfirm =>
        /\ \A n \in DOMAIN prompts :
              Declined(n) =>
                 /\ n = Len(prompts)
                 /\ pc = "exited"
                 /\ exitcode = <<3>>
                 /\ rsyncCalls = <<>>
                 /\ prompts[n].prompt = "create?" => (mkdirs = 0 /\ ~targetExists)
        /\ (pc = "makedirs" \/ mkdirs > 0) =>
              \E n \in DOMAIN prompts :
                 prompts[n].prompt = "create?" /\ prompts[n].answer = "y"
        /\ (pc \in {"rsync", "rsync_wait"} \/ rsyncCalls # <<>>) =>
              \E n \in DOMAIN prompts :
                 prompts[n].prompt = "Proceed?" /\ prompts[n].answer = "y"

C2_Witness ==
    /\ ~autoconfirm
    /\ exitcode = <<3>>
    /\ Len(prompts) = 1
    /\ prompts[1] = [prompt |-> "create?", answer |-> ""]

\* Readiness of the k-th source as the claims word it: readable, and no
\* earlier source of the list has its identifier.
FailsReadiness(k) ==
    \/ sources[k].path \notin readable
    \/ \E j \in 1..(k - 1) : sources[j].idn = sources[k].idn

Loaded == target # <<>>

\* C3: when a configured source fails readiness, the run makes no
\* directory, asks nothing, mirrors nothing, never gets past validation,
\* and its exit status is 1.
C3_ValidationStopsRun ==
    (Loaded /\ \E k \in DOMAIN sources : FailsReadiness(k)) =>
        /\ mkdirs = 0
        /\ prompts = <<>>
        /\ rsyncCalls = <<>>
        /\ pc \in {"show", "exited"}
        /\ pc = "exited" => exitcode = <<1>>

C3_Witness ==
    /\ pc = "exited"
    /\ cause = "one or more sources failed sanity check"
    /\ Len(sources) = 2
    /\ ~FailsReadiness(1)
    /\ FailsReadiness(2)
    /\ Len(shown) = 2

\* C4: the mirroring tool runs only with a target that exists and is
\* writable; a target found not writable ends the process with status 1
\* before any mirror invocation.
C4_SyncOnlyIntoWritableTarget ==
    /\ (pc \in {"show_dest", "rsync", "rsync_wait"} \/ rsyncCalls # <<>>) =>
          (targetExists /\ targetWritable)
    /\ cause = "target not writable" =>
          (exitcode = <<1>> /\ rsyncCalls = <<>> /\ ~targetWritable)
    /\ (pc = "exited" /\ mkdirs > 0 /\ ~targetWritable) => exitcode = <<1>>

C4_Witness ==
    /\ rsyncCalls # <<>>
    /\ mkdirs = 1
    /\ targetWritable

\* C5: the mirroring tool is invoked once per source, in configuration
\* order, one at a time, with the source's path and the target path; a run
\* that ends with status 0 has invoked it for every source; a target that
\* existed is never asked to be created.
C5_OneSyncPerSourceInOrder ==
    /\ Len(rsyncCalls) <= Len(sources)
    /\ \A n \in DOMAIN rsyncCalls :
          /\ rsyncCalls[n].args.src = sources[n].path
          /\ rsyncCalls[n].args.dst = target[1]
          /\ rsyncCalls[n].running => (n = Len(rsyncCalls) /\ pc = "rsync_wait")
    /\ pc = "rsync" => Len(rsyncCalls) = i - 1
    /\ pc = "rsync_wait" => Len(rsyncCalls) = i
    /\ exitcode = <<0>> => Len(rsyncCalls) = Len(sources)
    /\ (targetExists /\ mkdirs = 0) => ~Asked("create?")

C5_Witness ==
    /\ exitcode = <<0>>
    /\ Len(rsyncCalls) = 2
    /\ rsyncCalls[1].args.src = P3
    /\ rsyncCalls[2].args.src = <<"b", "/", "x">>
    /\ ~Asked("create?")

\* Every Source constructed so far, in construction order.
Constructed == sources \o cur

\* C6: among the Sources constructed, one is unique exactly when no
\* earlier one has its identifier, so each identifier has exactly one unique
\* Source, the earliest; every later one reports a conflict that names the
\* path string of that earliest entry.
C6_FirstRegisteredIsUnique ==
    \A k \in DOMAIN Constructed :
        LET s == Constructed[k]
            same == {j \in 1..k : Constructed[j].idn = s.idn}
            first == CHOOSE j \in same : \A m \in same : j <= m
        IN  /\ s.unique <=> (first = k)
            /\ Constructed[first].unique
            /\ Cardinality({j \in DOMAIN Constructed :
                    Constructed[j].idn = s.idn /\ Constructed[j].unique}) = 1
            /\ first # k =>
                  \E n \in DOMAIN SourceErrs(s) :
                     SourceErrs(s)[n] =
                        s.idn \o <<" conflicts with ">> \o getpath(Items[first])

C6_Witness ==
    /\ pc = "show"
    /\ Len(sources) = 2
    /\ sources[1].path = <<"b", "/", "x">>
    /\ sources[2].path = P1
    /\ sources[1].unique
    /\ ~sources[2].unique

\* The two-key schema as the specification words it.
SchemaViolation(c) ==
    \/ "sources" \notin c.keys
    \/ "target" \notin c.keys
    \/ c.keys \ {"sources", "target"} # {}
    \/ c.sources.t # "list"
    \/ c.target.t # "str"

\* C7: a document that breaks the two-key schema ends the process with
\* status 1 at the assertion: nothing is constructed or registered and no
\* prompt, directory creation, sizing or mirror invocation occurs.
C7_SchemaRejectedBeforeConstruction ==
    SchemaViolation(config) =>
        /\ pc \in {"readconfig", "exited"}
        /\ pc = "exited" => exitcode = <<1>>
        /\ identifiers = {}
        /\ Constructed = <<>>
        /\ target = <<>>
        /\ prompts = <<>>
        /\ mkdirs = 0
        /\ duCalls = <<>>
        /\ rsyncCalls = <<>>

C7_Witness ==
    /\ pc = "exited"
    /\ exitcode = <<1>>
    /\ config.keys = {"sources", "target", "extra"}
    /\ config.sources.t = "list"
    /\ Len(config.sources.items) = 1

\* C8: an object entry with a path and no exclude is accepted: loading a
\* schema-valid document does not fail on it, and its Source has the path
\* and an empty exclusion list.
C8_ExcludeIsOptional ==
    ~SchemaViolation(config) =>
        /\ cause # "KeyError"
        /\ \A k \in DOMAIN sources :
              (Items[k].t = "dict" /\ "exclude" \notin Items[k].keys) =>
                 /\ sources[k].path = trim_trailing_slash(Items[k].path.s)
                 /\ sources[k].excludes = <<>>

\* C9: every Source the loader has appended is the one of the entry at its
\* index: its exclusion list is empty for a bare string, <<p>> for the
\* single string p, and the list given, in order, for a list; when the
\* loader returns there is one Source per entry.
C9_ExcludesNormalized ==
    /\ Len(sources) <= Len(Items)
    /\ \A k \in DOMAIN sources :
          LET item == Items[k] IN
          /\ item.t = "str" =>
                (sources[k].path = trim_trailing_slash(item.s)
                 /\ sources[k].excludes = <<>>)
          /\ (item.t = "dict" /\ item.exclude.t = "str") =>
                (sources[k].path = trim_trailing_slash(item.path.s)
                 /\ sources[k].excludes = <<item.exclude.s>>)
          /\ (item.t = "dict" /\ item.exclude.t = "list") =>
                (sources[k].path = trim_trailing_slash(item.path.s)
                 /\ sources[k].excludes = item.exclude.l)
          /\ item.t = "dict" => item.exclude.t \in {"str", "list"}
    /\ Loaded => Len(sources) = Len(Items)

C9_Witness ==
    /\ Loaded
    /\ Len(sources) = 2
    /\ Items[1] = DictEntryExcl(P1, JList(<<PatQ, PatP>>))
    /\ Items[2] = DictEntryExcl(P3, JStr(PatP))
    /\ sources[1].excludes = <<PatQ, PatP>>
    /\ sources[2].excludes = <<PatP>>

\* C10: for every Source, all calls of size() return the same string and
\* the sizing tool is invoked at most once for it.
C10_SizeMemoized ==
    \A k \in DOMAIN sources :
        /\ \A a, b \in DOMAIN sizeLog :
              (sizeLog[a].src = k /\ sizeLog[b].src = k) =>
                 sizeLog[a].value = sizeLog[b].value
        /\ Cardinality({n \in DOMAIN duCalls : duCalls[n].src = k}) <= 1

\* The k-th Source constructed duplicates the identifier of an earlier one.
Duplicates(k) == \E j \in 1..(k - 1) : Constructed[j].idn = Constructed[k].idn

\* The conflict reason of the k-th Source: its identifier and the path
\* string of the earliest entry with that identifier.
ConflictReason(k) ==
    LET same == {j \in 1..k : Constructed[j].idn = Constructed[k].idn}
        first == CHOOSE j \in same : \A m \in same : j <= m
    IN  Constructed[k].idn \o <<" conflicts with ">> \o getpath(Items[first])

\* What readiness is to answer for the k-th Source, case by case.
ExpectedReadiness(k) ==
    LET unreadable == Constructed[k].path \notin readable IN
    IF unreadable /\ Duplicates(k)
    THEN <<"not readable", ",">> \o ConflictReason(k)
    ELSE IF unreadable THEN <<"not readable">>
    ELSE IF Duplicates(k) THEN ConflictReason(k)
    ELSE EmptyStr

\* C11: readiness names an unreadable path whether or not the identifier is
\* unique, names the conflict whether or not the path is readable, joins
\* both with a comma (readability first) when both fail, and is empty
\* exactly when the source is readable and unique; every status line shown
\* carries that answer, and a step that only evaluates readiness (the report
\* of a failing source, the validation loop) changes neither the registry
\* nor any Source.
C11_Answer ==
    /\ \A k \in DOMAIN Constructed :
          SourceErr(Constructed[k]) = ExpectedReadiness(k)
    /\ \A n \in DOMAIN shown :
          shown[n].err = ExpectedReadiness(shown[n].src)

C11_ReadinessNotShortCircuited ==
    /\ []C11_Answer
    /\ [][(pc = "show" /\ (i > Len(sources) \/ SourceErr(sources[i]) # EmptyStr))
            => UNCHANGED <<identifiers, sources, cur>>]_vars

C11_Witness ==
    /\ Len(shown) = 2
    /\ shown[1].err = <<"not readable">>
    /\ shown[2].err = <<"not readable", ",", "x", " conflicts with ", "b", "/", "x", "/">>

\* Every source of the loaded list is readable and unique.
AllSane == Loaded /\ \A k \in DOMAIN sources : ~FailsReadiness(k)

\* The prompts read are the creation gate, at most once and first, and the
\* final gate, at most once and last; the creation gate is read only for a
\* target that was missing; no mirror invocation precedes the final gate.
GateStructure ==
    /\ Len(prompts) <= 2
    /\ \A n \in DOMAIN prompts :
          /\ prompts[n].prompt \in {"create?", "Proceed?"}
          /\ prompts[n].prompt = "create?" => n = 1
          /\ prompts[n].prompt = "Proceed?" => n = Len(prompts)
    /\ Asked("create?") => (mkdirs = 0 => ~targetExists)
    /\ (targetExists /\ mkdirs = 0) => ~Asked("create?")
    /\ (rsyncCalls # <<>> \/ pc \in {"rsync", "rsync_wait"}) => Asked("Proceed?")

Returned(n) == ~rsyncCalls[n].running

\* C13: once the mirroring tool has been started, whatever status its
\* invocations return, the process goes on to the next source and can only
\* end with status 0, after an invocation for every source and the
\* completion message.
C13_SyncFailureNotFatal ==
    rsyncCalls # <<>> =>
        /\ pc \in {"rsync", "rsync_wait", "exited"}
        /\ pc = "rsync" /\ i <= Len(sources) => Len(rsyncCalls) < Len(sources)
        /\ pc = "exited" =>
              /\ exitcode = <<0>>
              /\ cause = "All done!"
              /\ Len(rsyncCalls) = Len(sources)
              /\ \A n \in DOMAIN rsyncCalls : Returned(n)
        /\ pc # "exited" => (exitcode = <<>> /\ ENABLED Next)

C13_Witness ==
    /\ exitcode = <<0>>
    /\ Len(rsyncCalls) = 2
    /\ rsyncCalls[1].rc = 23
    /\ rsyncCalls[2].rc = 23

\* The main program, whose every step is taken once it can be: a single
\* thread, with each prompt read and each subprocess returning.
FairSpec == Spec /\ WF_vars(Next)

\* Ends the code reports as configuration, validation or target errors.
ErrorCauses ==
    {"AssertionError", "KeyError", "one or more sources failed sanity check",
     "could not create", "target not writable"}

\* What the three outcomes have in common in C14 and in its amendment.
OutcomesBut1 ==
    /\ pc = "exited" => exitcode \in {<<0>>, <<1>>, <<3>>}
    /\ pc # "exited" => (exitcode = <<>> /\ ENABLED Next)
    /\ exitcode = <<0>> =>
          /\ \E n \in DOMAIN prompts :
                prompts[n].prompt = "Proceed?" /\ prompts[n].answer = "y"
          /\ Len(rsyncCalls) = Len(sources)
          /\ \A n \in DOMAIN rsyncCalls : Returned(n)
    /\ exitcode = <<3>> <=> \E n \in DOMAIN prompts : Declined(n)

C14_Outcomes ==
    /\ OutcomesBut1
    /\ exitcode = <<1>> <=>
          (pc = "exited" /\ cause \in ErrorCauses \cup {"CalledProcessError"})

C15_Guard ==
    /\ mkdirs <= 1
    /\ (mkdirs = 1 \/ pc = "makedirs") =>
          /\ AllSane
          /\ prompts = << [prompt |-> "create?", answer |-> "y"] >>
             \/ (Len(prompts) = 2
                 /\ prompts[1] = [prompt |-> "create?", answer |-> "y"])
    /\ cause = "could not create" =>
          /\ pc = "exited"
          /\ exitcode = <<1>>
          /\ mkdirs = 1
          /\ ~targetExists
          /\ rsyncCalls = <<>>
    /\ (targetExists /\ mkdirs = 0) => (~Asked("create?") /\ pc # "makedirs")

\* C15: os.makedirs is called at most once, only for a target that does not
\* exist, only after every source passed validation and the creation gate
\* was answered "y"; when it fails the process ends with status 1, with no
\* second call and no mirror invocation; a target that exists is neither
\* created nor asked about.
C15_CreationGuard ==
    /\ []C15_Guard
    /\ [][mkdirs' # mkdirs =>
            (~targetExists /\ pc = "makedirs" /\ mkdirs = 0 /\ mkdirs' = 1)]_vars

C15_Witness ==
    /\ cause = "could not create"
    /\ mkdirs = 1
    /\ Len(sources) = 2

\* C16: the validation error ends the process only after a status line has
\* been printed for every configured source, in order, failing or not,
\* whichever source fails; during the report the lines printed are those of
\* the sources before the current one.
C16_BatchReporting ==
    /\ pc = "show" => Len(shown) = i - 1
    /\ \A n \in DOMAIN shown :
          /\ shown[n].src = n
          /\ shown[n].err = EmptyStr <=> ~FailsReadiness(n)
    /\ cause = "one or more sources failed sanity check" =>
          /\ Len(sources) = Len(Items)
          /\ Len(shown) = Len(sources)
          /\ \E k \in DOMAIN sources : FailsReadiness(k)

C16_Witness ==
    /\ cause = "one or more sources failed sanity check"
    /\ Len(shown) = 2
    /\ shown[1].err # EmptyStr
    /\ shown[2].err = EmptyStr
    /\ shown[2].size = "1.1G"

\* A path string without any of its trailing slashes.
RECURSIVE StripSlashes(_)
StripSlashes(s) ==
    IF EndsWith(s, "/") THEN StripSlashes(SubSeq(s, 1, Len(s) - 1)) ELSE s

\* The final path component of a path string: the name after the last
\* separator, trailing separators not counted.
FinalComponent(s) == basename(StripSlashes(s))

\* C17: for every configured path string, ending in slashes or not, the
\* Source constructed from it has the string without its trailing slash as
\* its path, and the final path component as its identifier: a name that is
\* the destination subdirectory under the target and the registered key.
C17_IdentifierIsFinalComponent ==
    \A k \in DOMAIN Constructed :
        LET raw == getpath(Items[k])
            s == Constructed[k]
        IN  /\ s.path = trim_trailing_slash(raw)
            /\ ~EndsWith(s.path, "/")
            /\ s.idn = FinalComponent(raw)
            /\ Registered(s.idn)
            /\ target # <<>> => Location(s) = pathjoin(target[1], FinalComponent(raw))

\* The invocations of the sizing tool made for source k.
DuOf(k) == {n \in DOMAIN duCalls : duCalls[n].src = k}

C18_Sized ==
    /\ \A n \in DOMAIN duCalls :
          duCalls[n].src > 0 =>
              /\ ~FailsReadiness(duCalls[n].src)
              /\ duCalls[n].path \in readable
    /\ \A n \in DOMAIN shown : shown[n].err # EmptyStr => DuOf(shown[n].src) = {}
    /\ cause = "CalledProcessError" =>
          /\ pc = "exited"
          /\ exitcode = <<1>>
          /\ duCalls # <<>>
          /\ mkdirs = 0
          /\ rsyncCalls = <<>>
          /\ ~Asked("Proceed?")

\* C18: the sizing tool is invoked for a source only in the step that has
\* found its readiness ok, never for a source that reported a reason; a
\* failure of the tool, for a source or for an existing destination, ends
\* the process with status 1 and nothing is created or mirrored afterwards.
C18_SizeOnlyAfterReadiness ==
    /\ []C18_Sized
    /\ [][duCalls' # duCalls =>
            /\ Len(duCalls') = Len(duCalls) + 1
            /\ \/ /\ pc = "show"
                  /\ SourceErr(sources[i]) = EmptyStr
                  /\ duCalls'[Len(duCalls')].src = i
               \/ /\ pc = "show_dest"
                  /\ targetExists
                  /\ duCalls'[Len(duCalls')].src = 0]_vars
    /\ [][cause = "CalledProcessError" => UNCHANGED vars]_vars

C18_Witness ==
    /\ cause = "CalledProcessError"
    /\ Len(sources) = 2
    /\ Len(shown) = 1
    /\ shown[1].err # EmptyStr
    /\ Len(duCalls) = 1
    /\ duCalls[1].src = 2

\* The registry maps an identifier to one path string.
C19_Registry ==
    /\ \A e1, e2 \in identifiers : e1[1] = e2[1] => e1 = e2
    /\ \A k \in DOMAIN Constructed : Registered(Constructed[k].idn)
    /\ loads >= 2 =>
          /\ \A k \in DOMAIN Constructed : ~Constructed[k].unique
          /\ pc = "show" => \A k \in DOMAIN sources : SourceErr(sources[k]) # EmptyStr
          /\ pc \in {"target", "create", "makedirs", "writable", "show_dest",
                     "rsync", "rsync_wait"} => sources = <<>>

\* C19: the registry only grows, and only when a Source is constructed: no
\* entry is removed, none is given another path, over any number of loads;
\* so every source of a second load of the same document is non-unique,
\* and the steps after loading leave the registry as it is.
C19_RegistryAppendOnly ==
    /\ []C19_Registry
    /\ [][\A e \in identifiers : e \in identifiers']_vars
    /\ [][identifiers' # identifiers =>
            /\ pc = "load"
            /\ \E s \in SourcePaths :
                  /\ s = getpath(Items[i])
                  /\ ~Registered(basename(trim_trailing_slash(s)))
                  /\ identifiers' = identifiers \cup {<<basename(trim_trailing_slash(s)), s>>}]_vars

C19_Witness ==
    /\ loads = 2
    /\ cause = "one or more sources failed sanity check"
    /\ Len(sources) = 2
    /\ sources[1].idn # sources[2].idn
    /\ Len(shown) = 2
    /\ \A k \in 1..2 : sources[k].path \in readable /\ ~sources[k].unique

\* d names a directory directly under root: root, one separator, and a
\* non-empty name without separators.
ProperSubdir(d, root) ==
    LET base == IF EndsWith(root, "/") THEN root ELSE root \o <<"/">>
    IN  /\ Len(d) > Len(base)
        /\ SubSeq(d, 1, Len(base)) = base
        /\ \A n \in (Len(base) + 1)..Len(d) : d[n] # "/"

====
